---- MODULE Spec2Model ----
(***************************************************************************)
(* apollo-upload-client: the terminating upload link of src/src/index.js.  *)
(* The file holds two createUploadLink definitions: the CommonJS one       *)
(* (lines 104-227, variant "cjs") and the ES module one (lines 283-381,    *)
(* variant "esm").  The model covers the request handler (file extraction, *)
(* payload serialization, body assembly) and the life of each subscription *)
(* to the returned observable (fetch, response, parse, emit, abort).       *)
(***************************************************************************)
EXTENDS Integers, Sequences, FiniteSets, TLC

VARIABLES variant, abortSupported, callerSignal, linkHeaders, operation,
          original, phase, options, pc, closedBy, cancelledAt, controller,
          fetchOptions, response, rejection, events, aborted,
          contextResponses, fetchCalls, steps

vars == <<variant, abortSupported, callerSignal, linkHeaders, operation,
          original, phase, options, pc, closedBy, cancelledAt, controller,
          fetchOptions, response, rejection, events, aborted,
          contextResponses, fetchCalls, steps>>

inputVars == <<variant, abortSupported, callerSignal, linkHeaders, original>>

subVars == <<pc, closedBy, cancelledAt, controller, fetchOptions, response,
             rejection, events, contextResponses, fetchCalls, steps>>

(* ---------------------------- bounds ---------------------------------- *)

\* Number of subscriptions made to the observable of one operation.
MaxSubs == 2
\* Number of variable positions of the operation (paths variables.p1, ...).
MaxPaths == 3
\* Number of distinct file objects the caller may reference.
MaxFiles == 2

Subs == 1..MaxSubs
Paths == 1..MaxPaths

(* ---------------------------- values ---------------------------------- *)

File(i) == [k |-> "file", id |-> i]
Null == [k |-> "null", id |-> 0]
Scalar == [k |-> "scalar", id |-> 0]
\* A value JSON.stringify throws on (a BigInt, a cyclic object).
Cyclic == [k |-> "cyclic", id |-> 0]

Files == {File(i) : i \in 1..MaxFiles}
Values == Files \cup {Null, Scalar, Cyclic}
Operations == [Paths -> Values]

HeaderNames == {"accept", "content-type", "authorization"}

NoSig == [kind |-> "none", id |-> 0]
CallerSig == [kind |-> "caller", id |-> 0]
InternalSig(s) == [kind |-> "internal", id |-> s]

NoBody == [type |-> "none"]
NoResponse == [status |-> 0, body |-> "none"]
NoRejection == [from |-> "none", name |-> "none", result |-> "none"]

Variants == {"cjs", "esm"}

(* ----------------------- file extraction ------------------------------ *)

isExtractableFile(v) == v.k = "file"

\* files.set(file, [...paths, path]) of the Map extractFiles returns: a file
\* seen before gets the path added to its entry, a new file a new entry at
\* the end (Map insertion order).
AddOccurrence(files, file, path) ==
  IF \E k \in 1..Len(files) : files[k].file = file
  THEN [k \in 1..Len(files) |->
          IF files[k].file = file
          THEN [files[k] EXCEPT !.paths = Append(@, path)]
          ELSE files[k]]
  ELSE Append(files, [file |-> file, paths |-> <<path>>])

RECURSIVE ExtractWalk(_, _)
\* The depth-first walk of extractFiles over the first n positions.
ExtractWalk(body, n) ==
  IF n = 0 THEN <<>>
  ELSE LET prev == ExtractWalk(body, n - 1)
       IN IF isExtractableFile(body[n])
          THEN AddOccurrence(prev, body[n], n)
          ELSE prev

\* The tree with every extracted file replaced by null.
Stripped(body) ==
  [p \in DOMAIN body |-> IF isExtractableFile(body[p]) THEN Null ELSE body[p]]

\* cjs: const { clone, files } = extractFiles(body, '', isExtractableFile);
\* the body is left as it was.
ExtractFilesCjs(body) ==
  [clone |-> Stripped(body),
   files |-> ExtractWalk(body, Len(body)),
   body  |-> body]

RECURSIVE OccurrenceList(_, _)
\* esm: the array of { path, file }, one element per occurrence.
OccurrenceList(body, n) ==
  IF n = 0 THEN <<>>
  ELSE LET prev == OccurrenceList(body, n - 1)
       IN IF isExtractableFile(body[n])
          THEN Append(prev, [file |-> body[n], paths |-> <<n>>])
          ELSE prev

\* esm: const files = extractFiles(body); the payload is then serialized
\* from body itself, which extractFiles has stripped in place.
ExtractFilesEsm(body) ==
  [clone |-> Stripped(body),
   files |-> OccurrenceList(body, Len(body)),
   body  |-> Stripped(body)]

(* ----------------------- serialization -------------------------------- *)

\* JSON.stringify of one value.
JsonOf(v) ==
  CASE v.k = "null"   -> "null"
    [] v.k = "scalar" -> "\"s\""
    [] v.k = "file"   -> "{}"
    [] OTHER          -> "<throws>"

\* Mutant: the serializer never throws.
serializeNeverThrows(tree) ==
  [ok   |-> tree = tree,
   text |-> [p \in DOMAIN tree |-> JsonOf(tree[p])]]

\* serializeFetchParameter(p, 'Payload'): the JSON text, or a throw.
serializeFetchParameter(tree) ==
  [ok   |-> \A p \in DOMAIN tree : tree[p].k # "cyclic",
   text |-> [p \in DOMAIN tree |-> JsonOf(tree[p])]]

(* ----------------------- body assembly -------------------------------- *)

\* The first part index: ++i from i = 0 (cjs), the array index (esm).
FirstIndex(v) == IF v = "cjs" THEN 1 ELSE 0

\* The property key / field name of the k-th file (k = 1, 2, ...).
PartName(v, k) == ToString(FirstIndex(v) + k - 1)

\* JSON.stringify(map).
MapJson(v, files) ==
  [k \in 1..Len(files) |-> [key |-> PartName(v, k), paths |-> files[k].paths]]

\* The appends made to the FormData instance, in order.
FormParts(v, payload, files) ==
  <<[name |-> "operations", value |-> payload],
    [name |-> "map", value |-> MapJson(v, files)]>>
  \o [k \in 1..Len(files) |-> [name |-> PartName(v, k), value |-> files[k].file]]

\* Mutant: the multipart branch is taken whatever files holds.
HasFilesAlways(files) == Len(files) >= 0

\* if (files.size) / if (files.length)
HasFiles(files) == Len(files) > 0

\* options.body
AssembleBody(v, payload, files) ==
  IF HasFiles(files)
  THEN [type |-> "form", parts |-> FormParts(v, payload, files)]
  ELSE [type |-> "string", payload |-> payload]

\* Mutant: the content-type header is deleted before the test of files.
AssembleHeadersAlwaysDelete(headers, files) == headers \ {"content-type"}

\* delete options.headers['content-type'] on the multipart path only.
AssembleHeaders(headers, files) ==
  IF HasFiles(files) THEN headers \ {"content-type"} ELSE headers

ExtractFiles(v, body) ==
  IF v = "cjs" THEN ExtractFilesCjs(body) ELSE ExtractFilesEsm(body)

(* ----------------------------- Init ----------------------------------- *)

InitRest ==
  /\ operation = original
  /\ phase = "idle"
  /\ options = [headers |-> {}, body |-> NoBody, signal |-> NoSig]
  /\ pc = [s \in Subs |-> "idle"]
  /\ closedBy = [s \in Subs |-> "open"]
  /\ cancelledAt = [s \in Subs |-> "none"]
  /\ controller = [s \in Subs |-> NoSig]
  /\ fetchOptions = [s \in Subs |-> [headers |-> {}, body |-> NoBody, signal |-> NoSig]]
  /\ response = [s \in Subs |-> NoResponse]
  /\ rejection = [s \in Subs |-> NoRejection]
  /\ events = [s \in Subs |-> <<>>]
  /\ aborted = {}
  /\ contextResponses = 0
  /\ fetchCalls = [s \in Subs |-> 0]
  /\ steps = [s \in Subs |-> <<>>]

\* The merged headers of fallbackHttpConfig when nothing overrides them.
DefaultHeaders == {"accept", "content-type"}

\* The operation the life-cycle specification executes: a file at the first
\* position of the variables, scalars elsewhere.
LifecycleOperations ==
  {[p \in Paths |-> IF p = 1 THEN File(1) ELSE Scalar]}

\* The link has been created; nothing has been executed.
Init ==
  /\ variant \in Variants
  /\ abortSupported \in BOOLEAN
  /\ callerSignal \in BOOLEAN
  /\ linkHeaders = DefaultHeaders
  /\ original \in LifecycleOperations
  /\ InitRest

\* The same, with the operation and the merged headers drawn from all the
\* bounded inputs (used for the claims about body assembly).
InitAssemble ==
  /\ variant \in Variants
  /\ abortSupported \in BOOLEAN
  /\ callerSignal \in BOOLEAN
  /\ linkHeaders \in SUBSET HeaderNames
  /\ original \in Operations
  /\ InitRest

(* ----------------------- the request handler -------------------------- *)

\* new ApolloLink(operation => { ... return new Observable(...) }): the
\* options and body come from selectHttpOptionsAndBody, the files are
\* extracted, the payload serialized and options.body assembled.  A throw of
\* serializeFetchParameter leaves the handler before any observable exists.
Request ==
  /\ phase = "idle"
  /\ LET ex      == ExtractFiles(variant, operation)
         payload == serializeFetchParameter(
                      IF variant = "cjs" THEN ex.clone ELSE ex.body)
         signal  == IF callerSignal THEN CallerSig ELSE NoSig
     IN /\ operation' = ex.body
        /\ IF payload.ok
           THEN /\ phase' = "requested"
                /\ options' = [headers |-> AssembleHeaders(linkHeaders, ex.files),
                               body    |-> AssembleBody(variant, payload.text, ex.files),
                               signal  |-> signal]
           ELSE /\ phase' = "threw"
                /\ options' = [headers |-> linkHeaders,
                               body    |-> NoBody,
                               signal  |-> signal]
  /\ UNCHANGED <<inputVars, subVars, aborted>>

(* ----------------------- the subscription ----------------------------- *)

\* createSignalIfSupported is called and its controller kept: cjs only when
\* options carries no signal, esm always.
CreatesController(v, opts, supported) ==
  IF v = "cjs" THEN opts.signal = NoSig /\ supported ELSE supported

\* Mutant: the request is issued a second time.
CallsFetchTwice(n) == n + 2

\* customFetch(uri, options): one more outbound call.
CallsFetch(n) == n + 1

\* new Observable(observer => { ...; customFetch(uri, options) ... }): the
\* subscriber function up to and including the call of fetch.
Subscribe(s) ==
  /\ phase = "requested"
  /\ pc[s] = "idle"
  /\ LET create == CreatesController(variant, options, abortSupported)
         opts   == IF create THEN [options EXCEPT !.signal = InternalSig(s)]
                   ELSE options
     IN /\ controller' = [controller EXCEPT ![s] =
                            IF create THEN InternalSig(s) ELSE NoSig]
        /\ options' = opts
        /\ fetchOptions' = [fetchOptions EXCEPT ![s] = opts]
  /\ pc' = [pc EXCEPT ![s] = "fetching"]
  /\ fetchCalls' = [fetchCalls EXCEPT ![s] = CallsFetch(@)]
  /\ UNCHANGED <<inputVars, operation, phase, closedBy, cancelledAt, response,
                 rejection, events, aborted, contextResponses, steps>>

\* The signals aborted once the cleanup function of s has run:
\* if (abortController) abortController.abort()
Cleanup(s) ==
  IF controller[s] # NoSig THEN aborted \cup {controller[s]} ELSE aborted

\* Mutant: the observer is called through to the subscriber even after the
\* subscription was closed.
DeliversAfterClose(s) == s \in Subs

\* The observer of s still reaches its subscriber: the observable drops
\* every call made after unsubscribe, complete or error.
Delivers(s) == closedBy[s] = "open"

\* subscription.unsubscribe(): closes the subscription and runs the cleanup
\* function, unless completion or error has already done so.
Unsubscribe(s) ==
  /\ pc[s] # "idle"
  /\ cancelledAt[s] = "none"
  /\ cancelledAt' = [cancelledAt EXCEPT ![s] = pc[s]]
  /\ IF closedBy[s] = "open"
     THEN /\ closedBy' = [closedBy EXCEPT ![s] = "unsubscribe"]
          /\ aborted' = Cleanup(s)
     ELSE UNCHANGED <<closedBy, aborted>>
  /\ UNCHANGED <<inputVars, operation, phase, options, pc, controller,
                 fetchOptions, response, rejection, events, contextResponses,
                 fetchCalls, steps>>

\* The signal the caller put in fetchOptions fires (a timeout of the caller).
CallerAbort ==
  /\ callerSignal
  /\ CallerSig \notin aborted
  /\ aborted' = aborted \cup {CallerSig}
  /\ UNCHANGED <<inputVars, operation, phase, options, subVars>>

(* ----------------------- the promise chain ---------------------------- *)

\* The responses fetch resolves with: the status and what the body decodes to.
Responses ==
  {[status |-> 200, body |-> "data"],
   [status |-> 200, body |-> "errors+data"],
   [status |-> 500, body |-> "errors+data"],
   [status |-> 200, body |-> "unparsable"]}
ErrorResults == {"none", "errors+data", "errors"}

\* The first status parseAndCheckHttpResponse treats as a failure.
HttpErrorStatus == 300

\* Mutant: only error.result.errors is tested.
HasErrorsOnlyTested(result) == result \in {"errors+data", "errors"}

\* error.result && error.result.errors && error.result.data
HasErrorsAndData(result) == result = "errors+data"

\* Mutant: an AbortError that carries a result is not taken for an abort.
IsAbortErrorWithoutResult(err) == err.name = "AbortError" /\ err.result = "none"

\* error.name === 'AbortError'
IsAbortError(err) == err.name = "AbortError"

\* parseAndCheckHttpResponse(operation)(response) once the body is read:
\* unparsable text rejects without a result, a status of 300 or more
\* rejects with the decoded result attached, anything else resolves with
\* the decoded result.
ParseOutcome(resp) ==
  IF resp.body = "unparsable"
  THEN [resolved |-> FALSE, result |-> "none"]
  ELSE IF resp.status >= HttpErrorStatus
       THEN [resolved |-> FALSE, result |-> resp.body]
       ELSE [resolved |-> TRUE, result |-> resp.body]

Next_(r) == [type |-> "next", result |-> r]
Complete_ == [type |-> "complete", result |-> "none"]
Error_ == [type |-> "error", result |-> "none"]

\* The calls that reach the subscriber: everything up to and including the
\* first complete or error, which closes the subscription.
Delivered(calls) ==
  LET closing == {i \in 1..Len(calls) : calls[i].type \in {"complete", "error"}}
  IN IF closing = {} THEN calls
     ELSE SubSeq(calls, 1, CHOOSE i \in closing : \A j \in closing : i <= j)

\* The names of the calls, for the record of steps.
Types(calls) == [i \in 1..Len(calls) |-> calls[i].type]

\* Mutant: completion is signalled before the result is emitted.
ThenCallsCompleteFirst(result) == <<Complete_, Next_(result)>>

\* The calls the last then handler makes on the observer:
\* observer.next(result); observer.complete()
ThenCalls(result) == <<Next_(result), Complete_>>

\* .then(result => { observer.next(result); observer.complete() })
ThenEmit(s, result) ==
  IF Delivers(s)
  THEN /\ events' = [events EXCEPT ![s] = @ \o Delivered(ThenCalls(result))]
       /\ closedBy' = [closedBy EXCEPT ![s] = "complete"]
       /\ aborted' = Cleanup(s)
  ELSE UNCHANGED <<events, closedBy, aborted>>

\* Mutant: the result an error carries is never forwarded.
CatchCallsNoForward(err) ==
  IF IsAbortError(err) THEN <<>> ELSE <<Error_>>

\* The calls the catch handler makes on the observer for a rejection.
CatchCalls(err) ==
  IF IsAbortError(err) THEN <<>>
  ELSE IF HasErrorsAndData(err.result)
       THEN <<Next_(err.result), Error_>>
       ELSE <<Error_>>

\* .catch(error => { ... })
Catch(s, err) ==
  IF Delivers(s) /\ CatchCalls(err) # <<>>
  THEN /\ events' = [events EXCEPT ![s] = @ \o CatchCalls(err)]
       /\ closedBy' = [closedBy EXCEPT ![s] = "error"]
       /\ aborted' = Cleanup(s)
  ELSE UNCHANGED <<events, closedBy, aborted>>

\* What the chain does with a response: operation.setContext({ response }),
\* then parseAndCheckHttpResponse(operation)(response).
ResponseSteps == <<"setContext", "parse">>

\* fetch resolves: .then(response => { operation.setContext({ response });
\* return response }) runs and the response goes to the parser.
FetchResolve(s, resp) ==
  /\ pc[s] = "fetching"
  /\ fetchOptions[s].signal \notin aborted
  /\ pc' = [pc EXCEPT ![s] = "parsing"]
  /\ response' = [response EXCEPT ![s] = resp]
  /\ contextResponses' = contextResponses + 1
  /\ steps' = [steps EXCEPT ![s] = @ \o ResponseSteps]
  /\ UNCHANGED <<inputVars, operation, phase, options, closedBy, cancelledAt,
                 controller, fetchOptions, rejection, events, aborted,
                 fetchCalls>>

\* fetch rejects: with an AbortError exactly when its signal is aborted.
FetchReject(s, err) ==
  /\ pc[s] = "fetching"
  /\ IsAbortError(err) <=> fetchOptions[s].signal \in aborted
  /\ pc' = [pc EXCEPT ![s] = "settled"]
  /\ rejection' = [rejection EXCEPT ![s] =
                     [from |-> "fetch", name |-> err.name, result |-> err.result]]
  /\ Catch(s, err)
  /\ steps' = [steps EXCEPT ![s] = @ \o Types(CatchCalls(err))]
  /\ UNCHANGED <<inputVars, operation, phase, options, cancelledAt, controller,
                 fetchOptions, response, contextResponses, fetchCalls>>

\* The parser resolves and the result is emitted.
ParseResolve(s) ==
  /\ pc[s] = "parsing"
  /\ fetchOptions[s].signal \notin aborted
  /\ ParseOutcome(response[s]).resolved
  /\ pc' = [pc EXCEPT ![s] = "settled"]
  /\ ThenEmit(s, ParseOutcome(response[s]).result)
  /\ steps' = [steps EXCEPT ![s] = @ \o Types(ThenCalls(ParseOutcome(response[s]).result))]
  /\ UNCHANGED <<inputVars, operation, phase, options, cancelledAt, controller,
                 fetchOptions, response, rejection, contextResponses,
                 fetchCalls>>

\* The parser rejects: reading the body of an aborted request rejects with an
\* AbortError (which may carry any result), otherwise with the parser's own
\* error.
ParseReject(s, err) ==
  /\ pc[s] = "parsing"
  /\ IF fetchOptions[s].signal \in aborted
     THEN IsAbortError(err)
     ELSE /\ ~ParseOutcome(response[s]).resolved
          /\ err = [name |-> "Error", result |-> ParseOutcome(response[s]).result]
  /\ pc' = [pc EXCEPT ![s] = "settled"]
  /\ rejection' = [rejection EXCEPT ![s] =
                     [from |-> "parse", name |-> err.name, result |-> err.result]]
  /\ Catch(s, err)
  /\ steps' = [steps EXCEPT ![s] = @ \o Types(CatchCalls(err))]
  /\ UNCHANGED <<inputVars, operation, phase, options, cancelledAt, controller,
                 fetchOptions, response, contextResponses, fetchCalls>>

\* The errors a rejection carries; an AbortError may carry a result too.
Errors ==
  [name : {"Error"}, result : ErrorResults]
  \cup [name : {"AbortError"}, result : {"none", "errors+data"}]

Next ==
  \/ Request
  \/ \E s \in Subs : Subscribe(s)
  \/ \E s \in Subs : Unsubscribe(s)
  \/ CallerAbort
  \/ \E s \in Subs, resp \in Responses : FetchResolve(s, resp)
  \/ \E s \in Subs, err \in Errors : FetchReject(s, err)
  \/ \E s \in Subs : ParseResolve(s)
  \/ \E s \in Subs, err \in Errors : ParseReject(s, err)

Spec == Init /\ [][Next]_vars

NextAssemble ==
  \/ Request
  \/ \E s \in Subs : Subscribe(s)

SpecAssemble == InitAssemble /\ [][NextAssemble]_vars

TypeOK ==
  /\ variant \in Variants
  /\ phase \in {"idle", "requested", "threw"}
  /\ pc \in [Subs -> {"idle", "fetching", "parsing", "settled"}]
  /\ closedBy \in [Subs -> {"open", "unsubscribe", "complete", "error"}]
  /\ contextResponses \in 0..MaxSubs

(* ------------------------ the claims: life cycle ---------------------- *)

HasValue(ev) == \E i \in 1..Len(ev) : ev[i].type = "next"

\* The four outcomes of an execution.
IsOutcome(ev) ==
  \/ \E r \in ErrorResults \cup {"data"} : ev = <<Next_(r), Complete_>>
  \/ \E r \in ErrorResults \cup {"data"} : ev = <<Next_(r), Error_>>
  \/ ev = <<Complete_>>
  \/ ev = <<Error_>>

\* C1: every execution whose promise chain has settled and whose subscriber
\* never unsubscribed has delivered exactly one of: one value then
\* completion, one value then error, completion alone (the abort case), or
\* error alone; in particular an execution aborted while subscribed has
\* completed.
C1_FourOutcomes ==
  \A s \in Subs :
    (pc[s] = "settled" /\ cancelledAt[s] = "none") => IsOutcome(events[s])

\* C2: a subscriber that unsubscribed while fetch was pending has received
\* nothing and never receives anything; an unsubscribe after a value was
\* emitted changes nothing, and nothing is delivered after it.
C2_CancelIsSilent ==
  [][\A s \in Subs :
       /\ cancelledAt'[s] = "fetching" => events'[s] = <<>>
       /\ (HasValue(events[s]) /\ cancelledAt[s] = "none"
             /\ cancelledAt'[s] # "none")
            => /\ events' = events
               /\ closedBy' = closedBy
               /\ aborted' = aborted
       /\ (HasValue(events[s]) /\ cancelledAt[s] # "none")
            => events'[s] = events[s]]_vars

\* C2 witness: one subscriber unsubscribed while fetch was pending and the
\* late response has been handled; another unsubscribed after its value.
C2_Witness ==
  \E s, t \in Subs :
    /\ cancelledAt[s] = "fetching" /\ pc[s] = "settled"
    /\ response[s] # NoResponse /\ rejection[s] = NoRejection
    /\ HasValue(events[t]) /\ cancelledAt[t] = "settled"

\* C3: a non-cancellation rejection of fetch or of the parser, handled while
\* the subscriber is subscribed, delivers the carried result and then the
\* error when the result has both errors and data, and the error alone
\* otherwise.
C3_RejectionOutcome ==
  \A s \in Subs :
    (pc[s] = "settled" /\ rejection[s].name = "Error"
       /\ closedBy[s] # "unsubscribe")
    => events[s] = IF rejection[s].result = "errors+data"
                   THEN <<Next_("errors+data"), Error_>>
                   ELSE <<Error_>>

\* C3 witness: fetch rejected with a result of errors and data on one
\* subscription, the parser without any result on another.
C3_Witness ==
  \E s, t \in Subs :
    /\ rejection[s] = [from |-> "fetch", name |-> "Error", result |-> "errors+data"]
    /\ events[s] = <<Next_("errors+data"), Error_>>
    /\ rejection[t] = [from |-> "parse", name |-> "Error", result |-> "none"]
    /\ events[t] = <<Error_>>

\* The transport succeeded with a result of errors and data, the chain has
\* settled without an abort and the subscriber was subscribed throughout.
PartialResultHandled(s) ==
  /\ pc[s] = "settled"
  /\ response[s] # NoResponse
  /\ response[s].body = "errors+data"
  /\ rejection[s].name # "AbortError"
  /\ closedBy[s] # "unsubscribe"

\* C4 as stated: a decoded result with errors and data is emitted and then
\* an error is signalled, never a plain completion.
C4_AlwaysError ==
  \A s \in Subs :
    PartialResultHandled(s) => events[s] = <<Next_("errors+data"), Error_>>

\* C4 amended: a decoded result with errors and data is emitted; an error
\* follows when the parser rejected with it, a completion when the parser
\* resolved with it.
C4_ErrorOnlyOnRejection ==
  \A s \in Subs :
    PartialResultHandled(s)
    => events[s] = IF rejection[s].from = "parse"
                   THEN <<Next_("errors+data"), Error_>>
                   ELSE <<Next_("errors+data"), Complete_>>

\* C4 witness: the parser rejected a status 500 response whose body has
\* errors and data, and the partial result and the error were delivered.
C4_Witness ==
  \E s \in Subs :
    /\ PartialResultHandled(s)
    /\ response[s].status = 500
    /\ rejection[s].from = "parse"
    /\ events[s] = <<Next_("errors+data"), Error_>>

(* ------------------------ the claims: assembly ------------------------ *)

\* The distinct file objects an operation references.
FilesIn(op) == {op[p] : p \in DOMAIN op} \cap Files

\* The positions at which an operation references the file f.
PathsOf(op, f) == {p \in DOMAIN op : op[p] = f}

\* The JSON text of the operation with every file replaced by null.
StrippedJson(op) ==
  [p \in DOMAIN op |-> IF op[p] \in Files THEN "null" ELSE JsonOf(op[p])]

Range(f) == {f[i] : i \in DOMAIN f}

\* C5: for an operation without files the body assembled, and the body
\* every fetch call receives, is the serialized payload string itself.
C5_NoFilesJsonBody ==
  (phase = "requested" /\ FilesIn(original) = {})
  => /\ options.body = [type |-> "string", payload |-> StrippedJson(original)]
     /\ \A s \in Subs :
          pc[s] = "fetching" => fetchOptions[s].body = options.body

\* C5 witness: an operation without files has been sent.
C5_Witness ==
  /\ phase = "requested"
  /\ FilesIn(original) = {}
  /\ \E s \in Subs : pc[s] = "fetching" /\ fetchOptions[s].body.type = "string"

\* C6: for an operation with files the multipart body holds `operations`
\* with the serialized payload, then `map`, then one file field per
\* distinct file, and nothing else.
C6_PartsInOrder ==
  (phase = "requested" /\ FilesIn(original) # {})
  => /\ options.body.type = "form"
     /\ LET parts == options.body.parts
        IN /\ Len(parts) = 2 + Cardinality(FilesIn(original))
           /\ parts[1].name = "operations"
           /\ parts[1].value = StrippedJson(original)
           /\ parts[2].name = "map"
           /\ \A k \in 3..Len(parts) :
                /\ parts[k].name \notin {"operations", "map"}
                /\ parts[k].value \in FilesIn(original)
           /\ \A j, k \in 3..Len(parts) :
                j # k => parts[j].value # parts[k].value

\* C7: a file referenced at two or more positions has one entry in `map`
\* holding all its positions and exactly one file part.
C7_SharedFileOnce ==
  (phase = "requested" /\ FilesIn(original) # {})
  => LET parts == options.body.parts
         map   == parts[2].value
     IN \A f \in FilesIn(original) :
          Cardinality(PathsOf(original, f)) >= 2
          => /\ Cardinality({k \in 1..Len(map) :
                               Range(map[k].paths) \cap PathsOf(original, f) # {}}) = 1
             /\ \E k \in 1..Len(map) :
                  Range(map[k].paths) = PathsOf(original, f)
             /\ Cardinality({k \in 3..Len(parts) : parts[k].value = f}) = 1

\* The position at which the file f first occurs in the operation.
FirstPath(op, f) == CHOOSE p \in PathsOf(op, f) : \A q \in PathsOf(op, f) : p <= q

\* C8: the keys of `map` are "1", ..., "n" for the n distinct files in
\* first-occurrence order, and the k-th file part is named by the k-th key
\* and carries the file whose positions are stored under that key.
C8_KeysOneBased ==
  (phase = "requested" /\ FilesIn(original) # {})
  => LET parts == options.body.parts
         map   == parts[2].value
         n     == Cardinality(FilesIn(original))
     IN /\ Len(map) = n
        /\ Len(parts) = 2 + n
        /\ \A k \in 1..Len(map) :
             /\ map[k].key = ToString(k)
             /\ parts[2 + k].name = map[k].key
             /\ \A p \in Range(map[k].paths) : original[p] = parts[2 + k].value
        /\ \A j, k \in 1..Len(map) :
             j < k => FirstPath(original, parts[2 + j].value)
                        < FirstPath(original, parts[2 + k].value)

\* C9: the headers fetch receives are the merged headers without
\* `content-type` when a file was extracted, and the merged headers
\* unchanged when none was.
C9_ContentTypeDeletedIffFiles ==
  \A s \in Subs :
    pc[s] = "fetching"
    => fetchOptions[s].headers =
         IF FilesIn(original) # {}
         THEN linkHeaders \ {"content-type"}
         ELSE linkHeaders

\* C9 witness: merged headers with a content-type were sent on the JSON
\* path by one subscription of an operation without files.
C9_Witness ==
  /\ FilesIn(original) = {}
  /\ "content-type" \in linkHeaders
  /\ \E s \in Subs :
       pc[s] = "fetching" /\ "content-type" \in fetchOptions[s].headers

\* C10: the caller's operation holds, after the handler has run, every
\* value it held before.
C10_OperationUntouched ==
  phase # "idle" => operation = original

(* ------------------- the claims: subscriptions ------------------------ *)

\* The subscriptions whose subscriber function has run.
Subscribed == {s \in Subs : pc[s] # "idle"}

\* How often the handler has extracted, serialized and assembled: once per
\* execution of the operation, never again on a subscription.
PipelineRuns == IF phase = "idle" THEN 0 ELSE 1

\* C11: every subscription has a pipeline run of its own, and no two
\* subscriptions send the same internally created cancellation signal.
C11_FreshEnvelopePerSubscription ==
  /\ Cardinality(Subscribed) <= PipelineRuns
  /\ \A s, t \in Subscribed :
       (s # t /\ fetchOptions[s].signal.kind = "internal")
       => fetchOptions[s].signal # fetchOptions[t].signal

\* C12: a subscription has issued no fetch call before its subscriber
\* function ran and exactly one from then on, whatever its outcome; none is
\* issued while no observable exists.
C12_OneFetchPerExecution ==
  /\ \A s \in Subs : fetchCalls[s] = IF pc[s] = "idle" THEN 0 ELSE 1
  /\ phase # "requested" => \A s \in Subs : fetchCalls[s] = 0

\* C12 witness: executions that ended in an error, in a completion and in a
\* swallowed abort have each issued their one call.
C12_Witness ==
  \E s, t \in Subs :
    /\ closedBy[s] = "error" /\ fetchCalls[s] = 1
    /\ pc[t] = "settled" /\ closedBy[t] # "error" /\ fetchCalls[t] = 1

\* C13: at most one value is delivered and it precedes the completion; on
\* the success path the steps are: response put on the context, response
\* handed to the parser, result emitted, completion.
C13_ValueBeforeCompletion ==
  \A s \in Subs :
    /\ Cardinality({i \in 1..Len(events[s]) : events[s][i].type = "next"}) <= 1
    /\ \A i, j \in 1..Len(events[s]) :
         (events[s][i].type = "next" /\ events[s][j].type = "complete") => i < j
    /\ (pc[s] = "settled" /\ rejection[s] = NoRejection)
       => /\ steps[s] = <<"setContext", "parse", "next", "complete">>
          /\ closedBy[s] = "complete"
             => events[s] = <<Next_(response[s].body), Complete_>>

\* C13 witness: a subscription has completed after its value.
C13_Witness ==
  \E s \in Subs :
    /\ closedBy[s] = "complete"
    /\ steps[s] = <<"setContext", "parse", "next", "complete">>
    /\ Len(events[s]) = 2

\* C14: the response is put on the context of the operation at most once,
\* and never by an execution whose fetch rejected.
C14_ContextWriteOnce ==
  /\ contextResponses <= 1
  /\ \A s \in Subs :
       rejection[s].from = "fetch"
       => \A i \in 1..Len(steps[s]) : steps[s][i] # "setContext"

\* C15: a subscription has a controller of its own exactly when the caller
\* supplied no signal and abort controllers are supported, and a signal of
\* the caller is the signal fetch receives.
C15_ControllerIffNoCallerSignal ==
  \A s \in Subscribed :
    /\ controller[s] # NoSig <=> (~callerSignal /\ abortSupported)
    /\ callerSignal => fetchOptions[s].signal = CallerSig

\* The subscriber of s unsubscribes while fetch is pending.
UnsubscribesInFlight(s) ==
  cancelledAt[s] = "none" /\ cancelledAt'[s] = "fetching"

\* A step of the promise chain of s, whose subscriber left while fetch was
\* pending.
LateStep(s) == cancelledAt[s] = "fetching" /\ pc'[s] # pc[s]

\* C16 as stated: without a controller an unsubscribe in flight aborts
\* nothing, and the late response and what follows it deliver nothing and
\* change nothing, the context included.
C16_LateResponseChangesNothing ==
  [][\A s \in Subs :
       controller[s] = NoSig
       => /\ UnsubscribesInFlight(s) => aborted' = aborted
          /\ LateStep(s)
             => /\ events' = events
                /\ closedBy' = closedBy
                /\ aborted' = aborted
                /\ contextResponses' = contextResponses]_vars

\* C16 amended: without a controller an unsubscribe in flight aborts
\* nothing, and the late response and what follows it deliver nothing; the
\* late response is still put on the context of the operation.
C16_LateResponseNotDelivered ==
  [][\A s \in Subs :
       controller[s] = NoSig
       => /\ UnsubscribesInFlight(s) => aborted' = aborted
          /\ LateStep(s)
             => /\ events' = events
                /\ closedBy' = closedBy
                /\ aborted' = aborted
                /\ contextResponses' =
                     IF pc'[s] = "parsing" THEN contextResponses + 1
                     ELSE contextResponses]_vars

\* C16 witness: a subscription without a controller was left while fetch was
\* pending, and its response has since arrived and been parsed.
C16_Witness ==
  \E s \in Subs :
    /\ controller[s] = NoSig
    /\ cancelledAt[s] = "fetching"
    /\ pc[s] = "settled"
    /\ ParseOutcome(response[s]).resolved
    /\ rejection[s] = NoRejection
    /\ events[s] = <<>>
    /\ contextResponses >= 1

\* C19: the teardown of one subscription aborts the signal of no other
\* request, no request starts with a signal a teardown has aborted, and
\* (where a controller can be created) an unsubscribe in flight aborts the
\* request of the subscription itself.
C19_CancellationIsolated ==
  [][\A s, t \in Subs :
       s # t
       => /\ (closedBy[s] = "open" /\ closedBy'[s] # "open" /\ pc[t] # "idle")
             => (fetchOptions[t].signal \in aborted'
                   => fetchOptions[t].signal \in aborted)
          /\ (pc[t] = "idle" /\ pc'[t] = "fetching")
             => fetchOptions'[t].signal \notin aborted' \ {CallerSig}
          /\ (abortSupported /\ ~callerSignal /\ UnsubscribesInFlight(s))
             => fetchOptions[s].signal \in aborted']_vars

\* C20: an execution whose chain ended in an AbortError, from fetch or from
\* the parser, with or without a result, has made no call on its observer
\* and delivered nothing.
C20_AbortErrorSwallowed ==
  \A s \in Subs :
    (pc[s] = "settled" /\ rejection[s].name = "AbortError")
    => /\ events[s] = <<>>
       /\ \A i \in 1..Len(steps[s]) :
            steps[s][i] \notin {"next", "complete", "error"}

\* C20 witness: the parser rejected with an AbortError carrying errors and
\* data while the subscriber was still subscribed.
C20_Witness ==
  \E s \in Subs :
    /\ rejection[s] = [from |-> "parse", name |-> "AbortError",
                       result |-> "errors+data"]
    /\ closedBy[s] = "open"
    /\ events[s] = <<>>

(* ------------------- the claims: assembly, continued ------------------ *)

\* C17: every path of `map` leads to a null in `operations`, `map` has one
\* entry per distinct file, and every path of it was the place of a file.
C17_MapPathsAreNull ==
  (phase = "requested" /\ FilesIn(original) # {})
  => LET parts == options.body.parts
         map   == parts[2].value
     IN /\ \A k \in 1..Len(map) : \A p \in Range(map[k].paths) :
             /\ parts[1].value[p] = "null"
             /\ original[p] \in Files
        /\ Len(map) = Cardinality(FilesIn(original))

\* The operation holds a value the serializer throws on.
Unserializable(op) == \E p \in DOMAIN op : op[p] = Cyclic

\* C18: when the payload cannot be serialized the handler throws, no body is
\* assembled, no subscription exists, no fetch call is issued and nothing is
\* emitted.
C18_SerializationFailureIsFatal ==
  (phase # "idle" /\ Unserializable(original))
  => /\ phase = "threw"
     /\ options.body = NoBody
     /\ \A s \in Subs :
          pc[s] = "idle" /\ fetchCalls[s] = 0 /\ events[s] = <<>>

\* C18 witness: the handler threw on an operation that also holds a file.
C18_Witness ==
  /\ phase = "threw"
  /\ Unserializable(original)
  /\ FilesIn(original) # {}

====
